---------------------------- MODULE Spec2Model ----------------------------
(***************************************************************************)
(* A model of the task submission pattern of the rapids-examples           *)
(* notebooks: the caller's cells (the submit chain of umap-cuml.ipynb, the *)
(* persist / wait / train cells of NYCTaxi-E2E.ipynb) running against a    *)
(* pool of workers.  The caller's steps are translated from the cells; the *)
(* pool (dask.distributed, an external library) is modelled from the       *)
(* specification's description of the facade.                              *)
(***************************************************************************)
EXTENDS Integers, Sequences, FiniteSets, TLC

VARIABLES
    tasks,      \* the pool's task table: a sequence of task records, by handle
    memo,       \* whether the pool derives the key of a pure submission from its content
    handles,    \* the handles submit has returned, in call order
    pc,         \* the caller's position in the cell it is executing
    cells,      \* the cells of the session not executed yet
    i,          \* the loop variable of the submit loop (-1: unbound)
    img,        \* the caller's variable img (0: unbound)
    future,     \* the caller's variable future (0: unbound)
    X_train,    \* the caller's variable X_train: the handles of its partitions
    Y_train,    \* the caller's variable Y_train: the handles of its partitions
    done,       \* the caller's variable done: what wait returned
    reads,      \* the handles whose result the caller has read
    callerError, \* the handle whose error was raised in the caller (0: none)
    co,         \* the coroutine gather(): its position, its locals img and future
    env,        \* the other variables of the caller's namespace, by name
    gcs         \* the storage bucket: the bytes stored at each path

vars == <<tasks, memo, handles, pc, cells, i, img, future, X_train, Y_train,
          done, reads, callerError, co, env, gcs>>

(***************************************************************************)
(* Bounds of the model.                                                    *)
(***************************************************************************)
\* iterations of the submit loop (range(1000) in the notebook)
NChains == 2
\* partitions of the taxi dataframe
NParts == 2
\* worker processes of the pool (one per device)
NWorkers == 2

Workers == 1..NWorkers
NoWorker == 0
NoLit == -1
Terminal == {"finished", "failed"}

Range(s) == {s[k] : k \in DOMAIN s}

Handles == DOMAIN tasks

(***************************************************************************)
(* The facade: submit.                                                     *)
(***************************************************************************)
\* The filename argument of save: "file-" + str(i) + "-.dat", which differs
\* between two calls exactly when the number does; modelled by the number.
FileName(n) == n

NewTask(fn, deps, lit, pure, chain) ==
    [fn |-> fn, deps |-> deps, lit |-> lit, pure |-> pure, chain |-> chain,
     state |-> "created", worker |-> NoWorker, runs |-> 0,
     detached |-> FALSE, released |-> FALSE, result |-> 0]

\* The live tasks a pure submission of the same function and arguments names.
Existing(fn, deps, lit, pure) ==
    {t \in Handles : /\ memo /\ pure /\ tasks[t].pure
                     /\ ~tasks[t].released
                     /\ tasks[t].fn = fn
                     /\ tasks[t].deps = deps
                     /\ tasks[t].lit = lit}

\* submit(fn, *args, pure=...): the handle returned ...
SubmitHandle(fn, deps, lit, pure) ==
    IF Existing(fn, deps, lit, pure) # {}
    THEN CHOOSE t \in Existing(fn, deps, lit, pure) : TRUE
    ELSE Len(tasks) + 1

\* ... and the task table after the call.
SubmitTasks(fn, deps, lit, pure, chain) ==
    IF Existing(fn, deps, lit, pure) # {}
    THEN tasks
    ELSE Append(tasks, NewTask(fn, deps, lit, pure, chain))

(***************************************************************************)
(* Caller-side references and the pool's retention rule.                   *)
(***************************************************************************)
\* The handles held by the locals of the coroutine c ...
CoRefs(c) == {c.img, c.future} \ {0}

\* ... and by the handle variables a and b of the namespace e.
EnvRefs(e) == IF "a" \in DOMAIN e THEN {e.a, e.b} \ {0} ELSE {}

\* The handles held by caller variables bound to im, fu, xs and ys, and by
\* the rest of the caller's state.
Refs(im, fu, xs, ys) ==
    ({im, fu} \ {0}) \cup Range(xs) \cup Range(ys) \cup CoRefs(co) \cup EnvRefs(env)

\* The handles the caller's variables are bound to.
Referenced == Refs(img, future, X_train, Y_train)

\* A task is held for a caller that references it, and a detached task
\* until it completes ...
Wanted(ts, refs, t) == \/ t \in refs
                       \/ ts[t].detached /\ ts[t].state \notin Terminal

\* ... and for a dependent that has not completed.
Needed(ts, t) == \E u \in DOMAIN ts : /\ t \in Range(ts[u].deps)
                                      /\ ~ts[u].released
                                      /\ ts[u].state \in {"created", "running"}

\* Mutation: the pool never releases a task.
UnheldNone(ts, refs) == {}

Unheld(ts, refs) ==
    {t \in DOMAIN ts : ~ts[t].released /\ ~Wanted(ts, refs, t) /\ ~Needed(ts, t)}

\* Releasing a task that has not completed cancels it.
ReleaseAll(ts, S) ==
    [t \in DOMAIN ts |->
        IF t \in S
        THEN [ts[t] EXCEPT !.released = TRUE, !.worker = NoWorker,
                           !.state = IF @ \in Terminal THEN @ ELSE "cancelled"]
        ELSE ts[t]]

\* The pool releases every task that nothing holds, and then those which
\* only the released ones held.
RECURSIVE Collect(_, _)
Collect(ts, refs) ==
    IF Unheld(ts, refs) = {} THEN ts
    ELSE Collect(ReleaseAll(ts, Unheld(ts, refs)), refs)

\* No coroutine has been started; no other variable is bound; the bucket
\* holds no object.
NoCoroutine == [pc |-> "none", img |-> 0, future |-> 0, rounds |-> 0]

NoEnv == [nb |-> "none"]

NoObjects == <<>>

\* The state of a session once the client is connected, with cs the cells
\* it is going to execute.
InitWith(cs) ==
    /\ tasks = <<>>
    /\ memo \in BOOLEAN
    /\ handles = <<>>
    /\ pc = "idle"
    /\ cells = cs
    /\ i = -1
    /\ img = 0
    /\ future = 0
    /\ X_train = <<>>
    /\ Y_train = <<>>
    /\ done = [returned |-> FALSE, finished |-> {}, failed |-> {}]
    /\ reads = {}
    /\ callerError = 0
    /\ co = NoCoroutine
    /\ env = NoEnv
    /\ gcs = NoObjects

\* A session that issues the submit loop and the split and training cells
\* against one pool.
Init == InitWith({"loop", "split", "fit"})

extVars == <<co, env, gcs>>

callerVars == <<pc, cells, i, img, future, X_train, Y_train, done, reads,
                callerError, co, env, gcs>>

(***************************************************************************)
(* The caller: the notebook session executes its cells one at a time.      *)
(***************************************************************************)
RunLoopCell ==
    /\ pc = "idle"
    /\ "loop" \in cells
    /\ cells' = cells \ {"loop"}
    /\ pc' = "for"
    /\ UNCHANGED <<tasks, memo, handles, i, img, future, X_train, Y_train,
                   done, reads, callerError>>
    /\ UNCHANGED extVars

\* for i in range(1000):
For ==
    /\ pc = "for"
    /\ IF i + 1 < NChains
       THEN i' = i + 1 /\ pc' = "gather"
       ELSE i' = i /\ pc' = "idle"
    /\ UNCHANGED <<tasks, memo, handles, cells, img, future, X_train, Y_train,
                   done, reads, callerError>>
    /\ UNCHANGED extVars

\* A submit statement of the caller: var = client.submit(fn, *args, pure=...)
\* refs: the handles the caller holds once var is rebound.
SubmitStmt(fn, deps, lit, pure, refs) ==
    /\ tasks' = Collect(SubmitTasks(fn, deps, lit, pure, i), refs)
    /\ handles' = Append(handles, SubmitHandle(fn, deps, lit, pure))

\* Mutation: pure=False left out, so that the submission takes the default.
GatherPureDefault == TRUE

GatherPure == FALSE

\* Mutation: gather_from_detector submitted with the image of the iteration
\* before, which orders the chains one after the other.
GatherArgsPrev == IF img = 0 THEN <<>> ELSE <<img>>

\* gather_from_detector takes no argument.
GatherArgs == <<>>

\* img = client.submit(gather_from_detector, pure=False)
SubmitGather ==
    /\ pc = "gather"
    /\ SubmitStmt("gather_from_detector", GatherArgs, NoLit, GatherPure,
                  Refs(SubmitHandle("gather_from_detector", GatherArgs, NoLit, GatherPure),
                       future, X_train, Y_train))
    /\ img' = SubmitHandle("gather_from_detector", GatherArgs, NoLit, GatherPure)
    /\ pc' = "smooth"
    /\ UNCHANGED <<memo, cells, i, future, X_train, Y_train, done, reads, callerError>>
    /\ UNCHANGED extVars

\* Mutation: smooth submitted without the handle of the gathered image.
SmoothArgsNone == <<>>

SmoothArgs == <<img>>

\* Mutation: img = client.submit(smooth, img.result()), which waits for the
\* gathered image before submitting.
SubmitSmoothBlocking ==
    /\ pc = "smooth"
    /\ tasks[img].state = "finished"
    /\ SubmitStmt("smooth", <<>>, NoLit, TRUE,
                  Refs(SubmitHandle("smooth", <<>>, NoLit, TRUE),
                       future, X_train, Y_train))
    /\ img' = SubmitHandle("smooth", <<>>, NoLit, TRUE)
    /\ pc' = "fft2"
    /\ UNCHANGED <<memo, cells, i, future, X_train, Y_train, done, reads, callerError>>
    /\ UNCHANGED extVars

\* img = client.submit(smooth, img)
SubmitSmooth ==
    /\ pc = "smooth"
    /\ SubmitStmt("smooth", SmoothArgs, NoLit, TRUE,
                  Refs(SubmitHandle("smooth", SmoothArgs, NoLit, TRUE),
                       future, X_train, Y_train))
    /\ img' = SubmitHandle("smooth", SmoothArgs, NoLit, TRUE)
    /\ pc' = "fft2"
    /\ UNCHANGED <<memo, cells, i, future, X_train, Y_train, done, reads, callerError>>
    /\ UNCHANGED extVars

\* Mutation: fft2 submitted without the handle of the smoothed image.
Fft2ArgsNone == <<>>

Fft2Args == <<img>>

\* img = client.submit(np.fft.fft2, img)
SubmitFft2 ==
    /\ pc = "fft2"
    /\ SubmitStmt("fft2", Fft2Args, NoLit, TRUE,
                  Refs(SubmitHandle("fft2", Fft2Args, NoLit, TRUE),
                       future, X_train, Y_train))
    /\ img' = SubmitHandle("fft2", Fft2Args, NoLit, TRUE)
    /\ pc' = "save"
    /\ UNCHANGED <<memo, cells, i, future, X_train, Y_train, done, reads, callerError>>
    /\ UNCHANGED extVars

\* future = client.submit(save, img, "file-" + str(i) + "-.dat")
SubmitSave ==
    /\ pc = "save"
    /\ SubmitStmt("save", <<img>>, FileName(i), TRUE,
                  Refs(img, SubmitHandle("save", <<img>>, FileName(i), TRUE),
                       X_train, Y_train))
    /\ future' = SubmitHandle("save", <<img>>, FileName(i), TRUE)
    /\ pc' = "faf"
    /\ UNCHANGED <<memo, cells, i, img, X_train, Y_train, done, reads, callerError>>
    /\ UNCHANGED extVars

\* fire_and_forget(task): the pool keeps the task until it completes.
Detach(t) == [tasks EXCEPT ![t].detached = TRUE]

\* Mutation: the fire_and_forget call left out.
ForgetOnly ==
    /\ pc = "faf"
    /\ pc' = "for"
    /\ UNCHANGED <<tasks, memo, handles, cells, i, img, future, X_train, Y_train,
                   done, reads, callerError>>
    /\ UNCHANGED extVars

\* Mutation: future.result() in place of fire_and_forget(future): the caller
\* waits for the save task and its error is raised in the caller.
FutureResult ==
    /\ pc = "faf"
    /\ tasks[future].state \in Terminal
    /\ reads' = reads \cup {future}
    /\ callerError' = IF tasks[future].state = "failed" THEN future ELSE 0
    /\ pc' = IF tasks[future].state = "failed" THEN "halted" ELSE "for"
    /\ UNCHANGED <<tasks, memo, handles, cells, i, img, future, X_train, Y_train,
                   done>>
    /\ UNCHANGED extVars

\* fire_and_forget(future)
FireAndForget ==
    /\ pc = "faf"
    /\ tasks' = Collect(Detach(future), Referenced)
    /\ pc' = "for"
    /\ UNCHANGED <<memo, handles, cells, i, img, future, X_train, Y_train,
                   done, reads, callerError>>
    /\ UNCHANGED extVars

LoopNext ==
    \/ RunLoopCell
    \/ For
    \/ SubmitGather
    \/ SubmitSmooth
    \/ SubmitFft2
    \/ SubmitSave
    \/ FireAndForget

(***************************************************************************)
(* The train/test split cell and the training cell of the taxi notebook.   *)
(***************************************************************************)
RunSplitCell ==
    /\ pc = "idle"
    /\ "split" \in cells
    /\ cells' = cells \ {"split"}
    /\ pc' = "persistX"
    /\ UNCHANGED <<tasks, memo, handles, i, img, future, X_train, Y_train,
                   done, reads, callerError>>
    /\ UNCHANGED extVars

\* collection.persist(): one task per partition, submitted without blocking;
\* depsOf[p] are the handles partition p is computed from.
PersistTasks(fn, depsOf) ==
    tasks \o [p \in 1..NParts |-> NewTask(fn, depsOf[p], p, TRUE, p)]

PersistHandles == [p \in 1..NParts |-> Len(tasks) + p]

\* X_train = taxi_df.query('day < 25').persist()
PersistXTrain ==
    /\ pc = "persistX"
    /\ tasks' = Collect(PersistTasks("query", [p \in 1..NParts |-> <<>>]),
                       Refs(img, future, PersistHandles, Y_train))
    /\ X_train' = PersistHandles
    /\ pc' = "persistY"
    /\ UNCHANGED <<memo, handles, cells, i, img, future, Y_train, done, reads,
                   callerError>>
    /\ UNCHANGED extVars

\* Mutation: Y_train computed from the lazy dataframe, not from the handles
\* of the persisted X_train.
YTrainDepsNone(p) == <<>>

\* X_train[['fare_amount']]: partition p is computed from partition p of X_train.
YTrainDeps(p) == <<X_train[p]>>

\* Y_train = X_train[['fare_amount']].persist()
PersistYTrain ==
    /\ pc = "persistY"
    /\ tasks' = Collect(PersistTasks("getitem", [p \in 1..NParts |-> YTrainDeps(p)]),
                       Refs(img, future, X_train, PersistHandles))
    /\ Y_train' = PersistHandles
    /\ pc' = "project"
    /\ UNCHANGED <<memo, handles, cells, i, img, future, X_train, done, reads,
                   callerError>>
    /\ UNCHANGED extVars

\* X_train = X_train[X_train.columns.difference(['fare_amount'])]
\* A lazy projection: no task is submitted, and the new collection's graph
\* holds the handles of the persisted partitions.
ProjectXTrain ==
    /\ pc = "project"
    /\ X_train' = X_train
    /\ pc' = "wait"
    /\ UNCHANGED <<tasks, memo, handles, cells, i, img, future, Y_train, done,
                   reads, callerError>>
    /\ UNCHANGED extVars

\* Mutations: wait([X_train]), wait([Y_train]), wait([X_train, Y_train, future]).
WaitArgsXOnly == Range(X_train)

WaitArgsYOnly == Range(Y_train)

WaitArgsWithFuture == Range(X_train) \cup Range(Y_train) \cup ({future} \ {0})

\* The handles given to wait: wait([X_train, Y_train])
WaitArgs == Range(X_train) \cup Range(Y_train)

\* wait(ts): what it returns once every task of ts is finished or failed.
WaitSummary(ts) ==
    [returned |-> TRUE,
     finished |-> {t \in ts : tasks[t].state = "finished"},
     failed   |-> {t \in ts : tasks[t].state = "failed"}]

WaitReady(ts) == \A t \in ts : tasks[t].state \in Terminal

\* done = wait([X_train, Y_train])
WaitTrain ==
    /\ pc = "wait"
    /\ WaitReady(WaitArgs)
    /\ done' = WaitSummary(WaitArgs)
    /\ pc' = "idle"
    /\ UNCHANGED <<tasks, memo, handles, cells, i, img, future, X_train, Y_train,
                   reads, callerError>>
    /\ UNCHANGED extVars

RunFitCell ==
    /\ pc = "idle"
    /\ "fit" \in cells
    /\ "split" \notin cells
    /\ cells' = cells \ {"fit"}
    /\ pc' = "fit"
    /\ UNCHANGED <<tasks, memo, handles, i, img, future, X_train, Y_train,
                   done, reads, callerError>>
    /\ UNCHANGED extVars

\* The handles whose results the trainer reads.
TrainArgs == Range(X_train) \cup Range(Y_train)

\* Reading the results of ts: the error of a failed task is raised in the caller.
ResultError(ts) ==
    IF \E t \in ts : tasks[t].state = "failed"
    THEN CHOOSE t \in ts : /\ tasks[t].state = "failed"
                           /\ \A u \in ts : tasks[u].state = "failed" => t <= u
    ELSE 0

\* trained_model = dxgb_gpu.train(client, params, X_train, Y_train, ...)
Train ==
    /\ pc = "fit"
    /\ WaitReady(TrainArgs)
    /\ reads' = reads \cup TrainArgs
    /\ callerError' = ResultError(TrainArgs)
    /\ pc' = IF ResultError(TrainArgs) = 0 THEN "idle" ELSE "halted"
    /\ UNCHANGED <<tasks, memo, handles, cells, i, img, future, X_train, Y_train,
                   done>>
    /\ UNCHANGED extVars

TaxiNext ==
    \/ RunSplitCell
    \/ PersistXTrain
    \/ PersistYTrain
    \/ ProjectXTrain
    \/ WaitTrain
    \/ RunFitCell
    \/ Train

CallerNext == LoopNext \/ TaxiNext

(***************************************************************************)
(* The pool: workers claim tasks, run them and return.                     *)
(***************************************************************************)
Idle(w) == \A t \in Handles : tasks[t].worker # w

\* Mutation: a task that a worker is running can be claimed.
RunnableWhileRunning(t) ==
    /\ tasks[t].state \in {"created", "running"}
    /\ \A d \in Range(tasks[t].deps) : tasks[d].state = "finished"

\* Mutation: a task whose result exists is run again.
RunnableAgain(t) ==
    /\ tasks[t].state \in {"created", "finished"}
    /\ \A d \in Range(tasks[t].deps) : tasks[d].state = "finished"

\* A task may start once every task it takes as an argument has finished.
Runnable(t) ==
    /\ tasks[t].state = "created"
    /\ \A d \in Range(tasks[t].deps) : tasks[d].state = "finished"

Claim(w, t) ==
    /\ Idle(w)
    /\ Runnable(t)
    /\ tasks' = Collect([tasks EXCEPT ![t].state = "running", ![t].worker = w,
                                      ![t].runs = @ + 1], Referenced)
    /\ UNCHANGED <<memo, handles>>
    /\ UNCHANGED callerVars

\* What a function returns on the values vals and the literal lit.  The
\* functions of the notebooks return arrays and dataframes, which the pool
\* does not look into: their value is left out (0).
Apply(fn, vals, lit) ==
    CASE fn = "f" -> lit + 1
      [] fn = "g" -> vals[1] * 2
      [] OTHER -> 0

\* Mutation: the function is called on the handles, not on their results.
ArgHandles(t) == tasks[t].deps

\* The values a task's function is called on: the results of the tasks
\* whose handles were given to submit.
ArgValues(t) == [k \in DOMAIN tasks[t].deps |-> tasks[tasks[t].deps[k]].result]

\* The worker returns: the function returned a value ...
Finish(t) ==
    /\ tasks[t].state = "running"
    /\ tasks' = Collect([tasks EXCEPT ![t].state = "finished",
                                      ![t].worker = NoWorker,
                                      ![t].result = Apply(tasks[t].fn, ArgValues(t),
                                                          tasks[t].lit)],
                        Referenced)
    /\ UNCHANGED <<memo, handles>>
    /\ UNCHANGED callerVars

\* ... or raised.
Fail(t) ==
    /\ tasks[t].state = "running"
    /\ tasks' = Collect([tasks EXCEPT ![t].state = "failed",
                                      ![t].worker = NoWorker], Referenced)
    /\ UNCHANGED <<memo, handles>>
    /\ UNCHANGED callerVars

\* A task whose dependency failed is failed without being run.
Propagate(t) ==
    /\ tasks[t].state = "created"
    /\ \E d \in Range(tasks[t].deps) : tasks[d].state = "failed"
    /\ tasks' = Collect([tasks EXCEPT ![t].state = "failed"], Referenced)
    /\ UNCHANGED <<memo, handles>>
    /\ UNCHANGED callerVars

PoolNext ==
    \/ \E w \in Workers, t \in Handles : Claim(w, t)
    \/ \E t \in Handles : Finish(t)
    \/ \E t \in Handles : Fail(t)
    \/ \E t \in Handles : Propagate(t)

Next == CallerNext \/ PoolNext

Spec == Init /\ [][Next]_vars

\* The session of the umap-cuml notebook on its own: the submit loop against
\* the pool.
UmapInit == InitWith({"loop"})

UmapNext == LoopNext \/ PoolNext

UmapSpec == UmapInit /\ [][UmapNext]_vars

\* Fair worker scheduling: a pool step that stays possible is taken.
FairUmapSpec == UmapSpec /\ WF_vars(PoolNext)

\* The session of the NYCTaxi-E2E notebook on its own: the split and training
\* cells against the pool.
TaxiInit == InitWith({"split", "fit"})

TaxiSessionNext == TaxiNext \/ PoolNext

TaxiSpec == TaxiInit /\ [][TaxiSessionNext]_vars

(***************************************************************************)
(* The coroutine gather() of the umap notebook, started by                 *)
(* asyncio.ensure_future(gather()) in the cell after the loop cell.  It    *)
(* runs on the event loop of the session while no cell is executing; img   *)
(* and future are its locals, i is the global the for loop left.           *)
(***************************************************************************)
\* iterations of `while True` that are followed
MaxRounds == 1

\* The handles held once the locals of the coroutine are bound to im and fu.
CoHeld(im, fu) ==
    ({img, future, im, fu} \ {0}) \cup Range(X_train) \cup Range(Y_train)
        \cup EnvRefs(env)

\* The number of the iteration the coroutine is in, counted on from the
\* iterations of the for loop.
CoChain == NChains + co.rounds

CoSubmitStmt(fn, deps, lit, pure, im, fu) ==
    /\ tasks' = Collect(SubmitTasks(fn, deps, lit, pure, CoChain), CoHeld(im, fu))
    /\ handles' = Append(handles, SubmitHandle(fn, deps, lit, pure))

CoFrame ==
    UNCHANGED <<memo, cells, pc, i, img, future, X_train, Y_train, done, reads,
                callerError, env, gcs>>

\* asyncio.ensure_future(gather())
RunStreamCell ==
    /\ pc = "idle"
    /\ "stream" \in cells
    /\ "loop" \notin cells
    /\ cells' = cells \ {"stream"}
    /\ co' = [co EXCEPT !.pc = "gather"]
    /\ UNCHANGED <<tasks, memo, handles, pc, i, img, future, X_train, Y_train,
                   done, reads, callerError, env, gcs>>

\* img = client.submit(gather_from_detector, pure=False)
CoSubmitGather ==
    /\ pc = "idle"
    /\ co.pc = "gather"
    /\ co.rounds < MaxRounds
    /\ CoSubmitStmt("gather_from_detector", GatherArgs, NoLit, GatherPure,
                    SubmitHandle("gather_from_detector", GatherArgs, NoLit, GatherPure),
                    co.future)
    /\ co' = [co EXCEPT !.img = SubmitHandle("gather_from_detector", GatherArgs,
                                             NoLit, GatherPure),
                        !.pc = "smooth"]
    /\ CoFrame

\* img = client.submit(smooth, img)
CoSubmitSmooth ==
    /\ pc = "idle"
    /\ co.pc = "smooth"
    /\ CoSubmitStmt("smooth", <<co.img>>, NoLit, TRUE,
                    SubmitHandle("smooth", <<co.img>>, NoLit, TRUE), co.future)
    /\ co' = [co EXCEPT !.img = SubmitHandle("smooth", <<co.img>>, NoLit, TRUE),
                        !.pc = "fft2"]
    /\ CoFrame

\* img = client.submit(np.fft.fft2, img)
CoSubmitFft2 ==
    /\ pc = "idle"
    /\ co.pc = "fft2"
    /\ CoSubmitStmt("fft2", <<co.img>>, NoLit, TRUE,
                    SubmitHandle("fft2", <<co.img>>, NoLit, TRUE), co.future)
    /\ co' = [co EXCEPT !.img = SubmitHandle("fft2", <<co.img>>, NoLit, TRUE),
                        !.pc = "save"]
    /\ CoFrame

\* "file-" + str(i) + "-.dat": i is the global variable
CoFileNumber == i

\* future = client.submit(save, img, "file-" + str(i) + "-.dat")
CoSubmitSave ==
    /\ pc = "idle"
    /\ co.pc = "save"
    /\ CoSubmitStmt("save", <<co.img>>, FileName(CoFileNumber), TRUE, co.img,
                    SubmitHandle("save", <<co.img>>, FileName(CoFileNumber), TRUE))
    /\ co' = [co EXCEPT !.future = SubmitHandle("save", <<co.img>>,
                                                FileName(CoFileNumber), TRUE),
                        !.pc = "faf"]
    /\ CoFrame

\* Mutation: await future in place of fire_and_forget(future): the coroutine
\* goes on when the save task has completed.
CoAwaitFuture ==
    /\ pc = "idle"
    /\ co.pc = "faf"
    /\ tasks[co.future].state \in Terminal
    /\ co' = [co EXCEPT !.pc = "sleep", !.rounds = @ + 1]
    /\ UNCHANGED <<tasks, handles>>
    /\ CoFrame

\* fire_and_forget(future)
CoFireAndForget ==
    /\ pc = "idle"
    /\ co.pc = "faf"
    /\ tasks' = Collect(Detach(co.future), CoHeld(co.img, co.future))
    /\ co' = [co EXCEPT !.pc = "sleep", !.rounds = @ + 1]
    /\ UNCHANGED handles
    /\ CoFrame

\* await asyncio.sleep(0.01), and `while True` again
CoSleep ==
    /\ pc = "idle"
    /\ co.pc = "sleep"
    /\ co' = [co EXCEPT !.pc = "gather"]
    /\ UNCHANGED <<tasks, handles>>
    /\ CoFrame

StreamNext ==
    \/ RunStreamCell
    \/ CoSubmitGather
    \/ CoSubmitSmooth
    \/ CoSubmitFft2
    \/ CoSubmitSave
    \/ CoFireAndForget
    \/ CoSleep

\* The session of the umap notebook with both cells.
StreamInit == InitWith({"loop", "stream"})

StreamSessionNext == LoopNext \/ StreamNext \/ PoolNext

StreamSpec == StreamInit /\ [][StreamSessionNext]_vars

(***************************************************************************)
(* The example session of the specification: f(x) = x + 1 is submitted     *)
(* with an input x, g(y) = y * 2 with the handle of the first submit, and  *)
(* the caller waits for the second handle and reads its result.            *)
(***************************************************************************)
\* the largest input of the example
MaxInput == 2

Inputs == 0..MaxInput

NoOut == -1

\* a = client.submit(f, x)
ExSubmitF ==
    /\ pc = "ex_f"
    /\ SubmitStmt("f", <<>>, env.x, TRUE,
                  Referenced \cup {SubmitHandle("f", <<>>, env.x, TRUE)})
    /\ env' = [env EXCEPT !.a = SubmitHandle("f", <<>>, env.x, TRUE)]
    /\ pc' = "ex_g"
    /\ UNCHANGED <<memo, cells, i, img, future, X_train, Y_train, done, reads,
                   callerError, co, gcs>>

\* b = client.submit(g, a)
ExSubmitG ==
    /\ pc = "ex_g"
    /\ SubmitStmt("g", <<env.a>>, NoLit, TRUE,
                  Referenced \cup {SubmitHandle("g", <<env.a>>, NoLit, TRUE)})
    /\ env' = [env EXCEPT !.b = SubmitHandle("g", <<env.a>>, NoLit, TRUE)]
    /\ pc' = "ex_wait"
    /\ UNCHANGED <<memo, cells, i, img, future, X_train, Y_train, done, reads,
                   callerError, co, gcs>>

\* done = wait(b)
ExWait ==
    /\ pc = "ex_wait"
    /\ WaitReady({env.b})
    /\ done' = WaitSummary({env.b})
    /\ pc' = "ex_result"
    /\ UNCHANGED <<tasks, memo, handles, cells, i, img, future, X_train, Y_train,
                   reads, callerError, co, env, gcs>>

\* out = b.result()
ExResult ==
    /\ pc = "ex_result"
    /\ reads' = reads \cup {env.b}
    /\ callerError' = ResultError({env.b})
    /\ env' = [env EXCEPT !.out = IF tasks[env.b].state = "finished"
                                  THEN tasks[env.b].result ELSE NoOut]
    /\ pc' = IF ResultError({env.b}) = 0 THEN "ex_done" ELSE "halted"
    /\ UNCHANGED <<tasks, memo, handles, cells, i, img, future, X_train, Y_train,
                   done, co, gcs>>

ExampleNext == ExSubmitF \/ ExSubmitG \/ ExWait \/ ExResult

ExampleInit ==
    /\ tasks = <<>>
    /\ memo \in BOOLEAN
    /\ handles = <<>>
    /\ pc = "ex_f"
    /\ cells = {}
    /\ i = -1
    /\ img = 0
    /\ future = 0
    /\ X_train = <<>>
    /\ Y_train = <<>>
    /\ done = [returned |-> FALSE, finished |-> {}, failed |-> {}]
    /\ reads = {}
    /\ callerError = 0
    /\ co = NoCoroutine
    /\ \E x \in Inputs : env = [nb |-> "example", x |-> x, a |-> 0, b |-> 0,
                                 out |-> NoOut]
    /\ gcs = NoObjects

ExampleSpec == ExampleInit /\ [][ExampleNext \/ PoolNext]_vars

(***************************************************************************)
(* The data of the taxi notebook: a dataframe is a sequence of partitions, *)
(* a partition a sequence of rows, a row a record of its columns.  The     *)
(* cells from the train/test split to the reload of the saved model are    *)
(* run in the notebook's order on the rows; persist and wait leave the     *)
(* rows as they are.                                                       *)
(***************************************************************************)
\* the most rows of a partition of taxi_df
MaxRows == 2

\* the largest fare
MaxFare == 2

\* 'day < 25' / 'day >= 25'
DayCut == 25

Days == {DayCut - 1, DayCut}

Fares == 1..MaxFare

Columns == {"day", "fare_amount"}

Rows == [day : Days, fare_amount : Fares]

\* the partitions of taxi_df, which are read from files that have rows
Partitions == UNION {[1..k -> Rows] : k \in 1..MaxRows}

Frames == [1..NParts -> Partitions]

\* df[cols]
Project(df, cols) ==
    [p \in DOMAIN df |-> [k \in DOMAIN df[p] |-> [c \in cols |-> df[p][k][c]]]]

IsTrain(r) == r.day < DayCut

\* Mutation: 'day > 25' in place of 'day >= 25'.
IsTestAfter(r) == r.day > DayCut

IsTest(r) == r.day >= DayCut

\* df.query('day < 25'): the rows are filtered partition by partition
QueryTrainRows(df) == [p \in DOMAIN df |-> SelectSeq(df[p], IsTrain)]

\* df.query('day >= 25')
QueryTestRows(df) == [p \in DOMAIN df |-> SelectSeq(df[p], IsTest)]

\* Mutation: length >= 0 in place of length > 0.
NonEmptyOrEmpty(part) == Len(part) >= 0

\* length > 0
NonEmpty(part) == Len(part) > 0

\* lengths = df.map_partitions(len).compute()
\* nonempty = [length > 0 for length in lengths]
\* return df.partitions[nonempty]
drop_empty_partitions(df) == SelectSeq(df, NonEmpty)

\* the rows of a dataframe, partition after partition
RECURSIVE Flatten(_)
Flatten(df) == IF df = <<>> THEN <<>> ELSE Head(df) \o Flatten(Tail(df))

RECURSIVE SumCol(_, _)
SumCol(rows, c) == IF rows = <<>> THEN 0 ELSE Head(rows)[c] + SumCol(Tail(rows), c)

NoModel == [n |-> -1, fare_amount |-> -1]

\* dxgb_gpu.train: the model keeps what it learnt of the training rows, here
\* their number and the sum of their fares.
Fit(X, Y) == [n |-> Len(Flatten(X)), fare_amount |-> SumCol(Flatten(Y), "fare_amount")]

\* dxgb_gpu.predict: one prediction for each row of X
Predict(m, X) ==
    [p \in DOMAIN X |->
        [k \in DOMAIN X[p] |-> IF m.n <= 0 THEN 0 ELSE m.fare_amount \div m.n]]

\* df[c] = vals
WithColumn(df, c, vals) ==
    [p \in DOMAIN df |->
        [k \in DOMAIN df[p] |->
            [x \in DOMAIN df[p][k] \cup {c} |->
                IF x = c THEN vals[p][k] ELSE df[p][k][x]]]]

\* (Y_test['prediction'] - Y_test['fare_amount'])**2
SquaredErrors(Y) ==
    [p \in DOMAIN Y |->
        [k \in DOMAIN Y[p] |->
            (Y[p][k].prediction - Y[p][k].fare_amount)
                * (Y[p][k].prediction - Y[p][k].fare_amount)]]

\* math.sqrt(Y_test.squared_error.mean().compute()): the mean is kept as the
\* sum and the number of rows, the root is not taken.
Rmse(Y) == [sum |-> SumCol(Flatten(Y), "squared_error"), count |-> Len(Flatten(Y))]

\* dill.dump: the bytes written for a model
Encode(m) == <<m.n, m.fare_amount>>

\* dill.load: the model read from bytes
Decode(b) == [n |-> b[1], fare_amount |-> b[2]]

\* bucket+'trained_model.dill'
ModelPath == "rapidsai-test-1/trained_model.dill"

\* what another writer leaves at the location
OtherBytes == Encode([n |-> 0, fare_amount |-> 0])

EtlFrame ==
    UNCHANGED <<tasks, memo, handles, cells, i, img, future, X_train, Y_train,
                done, reads, callerError, co>>

\* X_train = taxi_df.query('day < 25').persist()
QueryTrain ==
    /\ pc = "q_train"
    /\ env' = [env EXCEPT !.X_train = QueryTrainRows(env.taxi_df)]
    /\ pc' = "y_train"
    /\ UNCHANGED gcs
    /\ EtlFrame

\* Y_train = X_train[['fare_amount']].persist()
SelectYTrain ==
    /\ pc = "y_train"
    /\ env' = [env EXCEPT !.Y_train = Project(env.X_train, {"fare_amount"})]
    /\ pc' = "x_train"
    /\ UNCHANGED gcs
    /\ EtlFrame

\* X_train = X_train[X_train.columns.difference(['fare_amount'])]
\* done = wait([X_train, Y_train])
DropFareTrain ==
    /\ pc = "x_train"
    /\ env' = [env EXCEPT !.X_train = Project(env.X_train, Columns \ {"fare_amount"})]
    /\ pc' = "train"
    /\ UNCHANGED gcs
    /\ EtlFrame

\* trained_model = dxgb_gpu.train(client, params, X_train, Y_train, ...)
EtlTrain ==
    /\ pc = "train"
    /\ env' = [env EXCEPT !.trained_model = Fit(env.X_train, env.Y_train),
                          !.handed = Append(@, [fn |-> "train",
                                                dfs |-> <<env.X_train, env.Y_train>>])]
    /\ pc' = "q_test"
    /\ UNCHANGED gcs
    /\ EtlFrame

\* X_test = taxi_df.query('day >= 25').persist()
QueryTest ==
    /\ pc = "q_test"
    /\ env' = [env EXCEPT !.X_test = QueryTestRows(env.taxi_df)]
    /\ pc' = "drop"
    /\ UNCHANGED gcs
    /\ EtlFrame

\* X_test = drop_empty_partitions(X_test)
DropEmptyTest ==
    /\ pc = "drop"
    /\ env' = [env EXCEPT !.X_test = drop_empty_partitions(env.X_test)]
    /\ pc' = "y_test"
    /\ UNCHANGED gcs
    /\ EtlFrame

\* Y_test = X_test[['fare_amount']]
SelectYTest ==
    /\ pc = "y_test"
    /\ env' = [env EXCEPT !.Y_test = Project(env.X_test, {"fare_amount"})]
    /\ pc' = "x_test"
    /\ UNCHANGED gcs
    /\ EtlFrame

\* X_test = X_test[X_test.columns.difference(['fare_amount'])]
DropFareTest ==
    /\ pc = "x_test"
    /\ env' = [env EXCEPT !.X_test = Project(env.X_test, Columns \ {"fare_amount"})]
    /\ pc' = "predict"
    /\ UNCHANGED gcs
    /\ EtlFrame

\* Y_test['prediction'] = dxgb_gpu.predict(client, trained_model, X_test)
EtlPredict ==
    /\ pc = "predict"
    /\ env' = [env EXCEPT !.Y_test = WithColumn(@, "prediction",
                                                Predict(env.trained_model, env.X_test)),
                          !.handed = Append(@, [fn |-> "predict",
                                                dfs |-> <<env.X_test>>])]
    /\ pc' = "error"
    /\ UNCHANGED gcs
    /\ EtlFrame

\* Y_test['squared_error'] = (Y_test['prediction'] - Y_test['fare_amount'])**2
SquaredError ==
    /\ pc = "error"
    /\ env' = [env EXCEPT !.Y_test = WithColumn(@, "squared_error", SquaredErrors(@))]
    /\ pc' = "rmse"
    /\ UNCHANGED gcs
    /\ EtlFrame

\* math.sqrt(Y_test.squared_error.mean().compute())
PrintRmse ==
    /\ pc = "rmse"
    /\ env' = [env EXCEPT !.out = Append(@, [prediction |-> Project(env.Y_test, {"prediction"}),
                                             rmse |-> Rmse(env.Y_test)])]
    /\ pc' = "dump"
    /\ UNCHANGED gcs
    /\ EtlFrame

\* Mutation: another object is dumped in place of the trained model.
DumpedOther == [n |-> 0, fare_amount |-> 0]

\* dill.dump(trained_model, file)
Dumped == env.trained_model

\* with fs.open(bucket+'trained_model.dill', 'wb') as file: dill.dump(...)
Dump ==
    /\ pc = "dump"
    /\ gcs' = [o \in DOMAIN gcs \cup {ModelPath} |->
                  IF o = ModelPath THEN Encode(Dumped) ELSE gcs[o]]
    /\ pc' = "load"
    /\ UNCHANGED env
    /\ EtlFrame

\* The cell that reloads the model: dill.load from the same location, the
\* predictions on X_test with the loaded model, the squared errors and the
\* root mean squared error again.
Reload ==
    /\ pc = "load"
    /\ ModelPath \in DOMAIN gcs
    /\ LET m == Decode(gcs[ModelPath])
           Y == WithColumn(env.Y_test, "prediction", Predict(m, env.X_test))
           E == WithColumn(Y, "squared_error", SquaredErrors(Y))
       IN env' = [env EXCEPT !.model_from_disk = m,
                             !.Y_test = E,
                             !.handed = Append(@, [fn |-> "predict",
                                                   dfs |-> <<env.X_test>>]),
                             !.out = Append(@, [prediction |-> Project(E, {"prediction"}),
                                                rmse |-> Rmse(E)])]
    /\ pc' = "reloaded"
    /\ UNCHANGED gcs
    /\ EtlFrame

\* Another writer of the bucket writes to the location of the model, before
\* the dump or between the dump and the load.
OtherWrite ==
    /\ pc \in {"dump", "load"}
    /\ gcs' = [o \in DOMAIN gcs \cup {ModelPath} |->
                  IF o = ModelPath THEN OtherBytes ELSE gcs[o]]
    /\ env' = [env EXCEPT !.between = @ \/ pc = "load"]
    /\ UNCHANGED pc
    /\ EtlFrame

EtlNext ==
    \/ QueryTrain
    \/ SelectYTrain
    \/ DropFareTrain
    \/ EtlTrain
    \/ QueryTest
    \/ DropEmptyTest
    \/ SelectYTest
    \/ DropFareTest
    \/ EtlPredict
    \/ SquaredError
    \/ PrintRmse
    \/ Dump
    \/ Reload
    \/ OtherWrite

EtlInit ==
    /\ tasks = <<>>
    /\ memo \in BOOLEAN
    /\ handles = <<>>
    /\ pc = "q_train"
    /\ cells = {}
    /\ i = -1
    /\ img = 0
    /\ future = 0
    /\ X_train = <<>>
    /\ Y_train = <<>>
    /\ done = [returned |-> FALSE, finished |-> {}, failed |-> {}]
    /\ reads = {}
    /\ callerError = 0
    /\ co = NoCoroutine
    /\ \E df \in Frames :
           env = [nb |-> "etl", taxi_df |-> df, X_train |-> <<>>, Y_train |-> <<>>,
                  trained_model |-> NoModel, X_test |-> <<>>, Y_test |-> <<>>,
                  model_from_disk |-> NoModel, handed |-> <<>>, out |-> <<>>,
                  between |-> FALSE]
    /\ gcs = NoObjects

EtlSpec == EtlInit /\ [][EtlNext]_vars

(***************************************************************************)
(* The cleanup cells of the taxi notebook.  A partition read from a CSV    *)
(* file is a sequence of columns; a column has a name, the dtype the       *)
(* reader inferred and, for the one row that is followed, a cell.  A name  *)
(* is its lower-case spelling, whether the file spells it with capitals,   *)
(* and the number of spaces on each side of it.                            *)
(***************************************************************************)
\* the most spaces on each side of a column name
MaxPad == 1

\* the most columns of a partition whose names are arbitrary
MaxCols == 2

remap ==
    [tpep_pickup_datetime |-> "pickup_datetime",
     tpep_dropoff_datetime |-> "dropoff_datetime",
     ratecodeid |-> "rate_code"]

must_haves ==
    [pickup_datetime |-> "datetime64[ms]",
     dropoff_datetime |-> "datetime64[ms]",
     passenger_count |-> "int32",
     trip_distance |-> "float32",
     pickup_longitude |-> "float32",
     pickup_latitude |-> "float32",
     rate_code |-> "int32",
     dropoff_longitude |-> "float32",
     dropoff_latitude |-> "float32",
     fare_amount |-> "float32"]

DatetimeCols == {"pickup_datetime", "dropoff_datetime"}

\* the dtypes read_csv infers
ReaderDtypes == {"object", "int64", "float64"}

Missing == [na |-> TRUE, v |-> 0]

Present(v) == [na |-> FALSE, v |-> v]

\* col.strip()
Strip(n) == [n EXCEPT !.pad = 0]

\* col.lower()
Lower(n) == [n EXCEPT !.upper = FALSE]

\* the name is the string text itself, the form the keys of remap and
\* must_haves have
IsPlain(n) == n.pad = 0 /\ ~n.upper

\* tmp = {col:col.strip().lower() for col in list(df_part.columns)}
\* df_part = df_part.rename(tmp)
RenameTmp(df) == [k \in DOMAIN df |-> [df[k] EXCEPT !.name = Lower(Strip(@))]]

\* df_part = df_part.rename(remap)
RenameRemap(df) ==
    [k \in DOMAIN df |->
        IF IsPlain(df[k].name) /\ df[k].name.text \in DOMAIN remap
        THEN [df[k] EXCEPT !.name.text = remap[@]]
        ELSE df[k]]

\* Mutation: the test `col not in must_haves` left out, no column is dropped.
KeptAlways(c) == TRUE

\* not (col not in must_haves)
Kept(c) == IsPlain(c.name) /\ c.name.text \in DOMAIN must_haves

\* fillna('-1'), fillna(-1)
Sentinel == -1

\* Mutation: missing values are filled with 1.
FillNaOne(cell) == IF cell.na THEN Present(1) ELSE cell

FillNa(cell) == IF cell.na THEN Present(Sentinel) ELSE cell

\* astype('int32') if 'int' in str(dtype), astype('float32') if 'float' in it
Downcast(dtype) ==
    CASE dtype = "int64" -> "int32"
      [] dtype = "float64" -> "float32"
      [] OTHER -> dtype

\* The body of the loop for a column that is kept.
Recast(c) ==
    IF c.dtype = "object" /\ c.name.text \in DatetimeCols
    THEN [c EXCEPT !.dtype = "datetime64[ms]"]
    ELSE IF c.dtype = "object"
         THEN [c EXCEPT !.dtype = "float32", !.cell = FillNa(@)]
         ELSE [c EXCEPT !.dtype = Downcast(@), !.cell = FillNa(@)]

\* for col in df_part.columns: ...
CleanLoop(df) ==
    [k \in DOMAIN SelectSeq(df, Kept) |-> Recast(SelectSeq(df, Kept)[k])]

clean(df_part) == CleanLoop(RenameRemap(RenameTmp(df_part)))

\* the columns query_frags names
FilterCols ==
    <<"fare_amount", "passenger_count", "pickup_longitude", "dropoff_longitude",
      "pickup_latitude", "dropoff_latitude">>

\* One fragment of query_frags on a cell; a comparison with a missing value
\* is not true.
Frag(text, cell) ==
    /\ ~cell.na
    /\ CASE text = "fare_amount" -> cell.v > 0 /\ cell.v < 500
         [] text = "passenger_count" -> cell.v > 0 /\ cell.v < 6
         [] text \in {"pickup_longitude", "dropoff_longitude"} ->
                cell.v > -75 /\ cell.v < -73
         [] text \in {"pickup_latitude", "dropoff_latitude"} ->
                cell.v > 40 /\ cell.v < 42
         [] OTHER -> TRUE

\* the query can be evaluated: the frame has the columns it names
Queryable(df) ==
    \A f \in Range(FilterCols) :
        \E k \in DOMAIN df : IsPlain(df[k].name) /\ df[k].name.text = f

\* ' and '.join(query_frags) on the row
Passes(df) == \A k \in DOMAIN df : Frag(df[k].name.text, df[k].cell)

CleanFrame ==
    UNCHANGED <<tasks, memo, handles, cells, i, img, future, X_train, Y_train,
                done, reads, callerError, co, gcs>>

\* df = read_csv(...).map_partitions(clean, remap, must_haves)
Clean ==
    /\ pc = "clean"
    /\ env' = [env EXCEPT !.df_part = clean(env.raw)]
    /\ pc' = "query"
    /\ CleanFrame

\* taxi_df = taxi_df.query(' and '.join(query_frags))
QueryFrags ==
    /\ pc = "query"
    /\ IF Queryable(env.df_part)
       THEN /\ env' = [env EXCEPT !.taxi_df =
                          IF Passes(env.df_part) THEN <<env.df_part>> ELSE <<>>]
            /\ pc' = "queried"
       ELSE /\ env' = [env EXCEPT !.error = TRUE]
            /\ pc' = "halted"
    /\ CleanFrame

CleanNext == Clean \/ QueryFrags

Names ==
    [text : DOMAIN must_haves \cup DOMAIN remap \cup {"vendor_id"},
     upper : BOOLEAN, pad : 0..MaxPad]

\* the name as clean leaves it when it keeps the column
Spelling(n) == IF n.text \in DOMAIN remap THEN remap[n.text] ELSE n.text

\* The partitions of 1..MaxCols columns, no two of which are the same column
\* under two spellings.
RawParts ==
    {df \in UNION {[1..n -> [name : Names, dtype : ReaderDtypes, cell : {Present(1)}]] :
                      n \in 1..MaxCols} :
        \A j, k \in DOMAIN df : j # k => Spelling(df[j].name) # Spelling(df[k].name)}

\* a value that passes the fragment of its column
OkValue(text) ==
    CASE text = "fare_amount" -> 10
      [] text = "passenger_count" -> 1
      [] text \in {"pickup_longitude", "dropoff_longitude"} -> -74
      [] OTHER -> 41

\* The partitions that have the columns of query_frags, each with a dtype of
\* the reader and a cell that is missing or holds a value in range.
FilterParts ==
    {[k \in DOMAIN FilterCols |->
         [name |-> [text |-> FilterCols[k], upper |-> FALSE, pad |-> 0],
          dtype |-> d[k],
          cell |-> IF m[k] THEN Missing ELSE Present(OkValue(FilterCols[k]))]] :
        d \in [DOMAIN FilterCols -> ReaderDtypes],
        m \in [DOMAIN FilterCols -> BOOLEAN]}

CleanInitOf(parts) ==
    /\ tasks = <<>>
    /\ memo = FALSE
    /\ handles = <<>>
    /\ pc = "clean"
    /\ cells = {}
    /\ i = -1
    /\ img = 0
    /\ future = 0
    /\ X_train = <<>>
    /\ Y_train = <<>>
    /\ done = [returned |-> FALSE, finished |-> {}, failed |-> {}]
    /\ reads = {}
    /\ callerError = 0
    /\ co = NoCoroutine
    /\ \E df \in parts :
           env = [nb |-> "clean", raw |-> df, df_part |-> df, taxi_df |-> <<>>,
                  error |-> FALSE]
    /\ gcs = NoObjects

CleanInit == CleanInitOf(RawParts)

CleanSpec == CleanInit /\ [][CleanNext]_vars

FilterInit == CleanInitOf(FilterParts)

FilterSpec == FilterInit /\ [][CleanNext]_vars

(***************************************************************************)
(* The feature cell of the taxi notebook: day_of_the_week_kernel applied   *)
(* to the day, month and year of a row's pickup date.  The dates are those *)
(* of the files read: 2014, 2015 and January to June 2016.                 *)
(***************************************************************************)
\* base_path+'2014/yellow_*.csv'
FirstYear == 2014

\* base_path+'2016/yellow_tripdata_2016-'+month+'.csv'
LastYear == 2016

\* for x in range(1, 7)
LastMonth == 6

DaysInMonth(m, y) ==
    CASE m \in {4, 6, 9, 11} -> 30
      [] m = 2 -> IF y % 4 = 0 THEN 29 ELSE 28
      [] OTHER -> 31

\* the pickup dates of the rows
Dates ==
    {dt \in [day : 1..31, month : 1..12, year : FirstYear..LastYear] :
        /\ dt.day <= DaysInMonth(dt.month, dt.year)
        /\ dt.year = LastYear => dt.month <= LastMonth}

\* math.floor(m*2.6); in floating point as in integers for m in 2..14
FloorTimes(m) == (13 * m) \div 5

\* The body of the loop of day_of_the_week_kernel for one row.
day_of_the_week_kernel(day, month, year) ==
    LET shift == IF month < 3 THEN month ELSE 0
        Y == year - (IF month < 3 THEN 1 ELSE 0)
        y == Y - 2000
        c == 20
        d == day
        m == month + shift + 1
    IN (d + FloorTimes(m) + y + (y \div 4) + (c \div 4) - 2 * c) % 7

NoDay == -1

\* df = df.apply_rows(day_of_the_week_kernel, incols=['day', 'month', 'year'], ...)
\* df['is_weekend'] = (df['day_of_week']<2).astype(np.int32)
AddFeatures ==
    /\ pc = "features"
    /\ env' = [env EXCEPT
                  !.day_of_week = day_of_the_week_kernel(env.day, env.month, env.year),
                  !.is_weekend =
                      IF day_of_the_week_kernel(env.day, env.month, env.year) < 2
                      THEN 1 ELSE 0]
    /\ pc' = "featured"
    /\ UNCHANGED <<tasks, memo, handles, cells, i, img, future, X_train, Y_train,
                   done, reads, callerError, co, gcs>>

FeaturesInit ==
    /\ tasks = <<>>
    /\ memo = FALSE
    /\ handles = <<>>
    /\ pc = "features"
    /\ cells = {}
    /\ i = -1
    /\ img = 0
    /\ future = 0
    /\ X_train = <<>>
    /\ Y_train = <<>>
    /\ done = [returned |-> FALSE, finished |-> {}, failed |-> {}]
    /\ reads = {}
    /\ callerError = 0
    /\ co = NoCoroutine
    /\ \E dt \in Dates :
           env = [nb |-> "features", day |-> dt.day, month |-> dt.month,
                  year |-> dt.year, day_of_week |-> NoDay, is_weekend |-> NoDay]
    /\ gcs = NoObjects

FeaturesSpec == FeaturesInit /\ [][AddFeatures]_vars

(***************************************************************************)
(* Definitions used to state the properties.                               *)
(***************************************************************************)
ChainFns == {"gather_from_detector", "smooth", "fft2", "save"}

\* The place of a function in the chain gather -> smooth -> fft2 -> save.
Pos(fn) == CASE fn = "gather_from_detector" -> 1
             [] fn = "smooth" -> 2
             [] fn = "fft2" -> 3
             [] fn = "save" -> 4
             [] OTHER -> 0

\* The tasks a task depends on, directly or through other tasks.
RECURSIVE TransDeps(_)
TransDeps(t) ==
    Range(tasks[t].deps) \cup UNION {TransDeps(d) : d \in Range(tasks[t].deps)}

\* The tasks submitted before t in the loop iteration that submitted t.
Upstream(t) ==
    {u \in Handles : /\ tasks[t].fn \in ChainFns
                     /\ tasks[u].fn \in ChainFns
                     /\ tasks[u].chain = tasks[t].chain
                     /\ Pos(tasks[u].fn) < Pos(tasks[t].fn)}

SaveTasks == {t \in Handles : tasks[t].fn = "save"}

Given == Range(X_train) \cup Range(Y_train)

Busy(w) == \E t \in Handles : tasks[t].worker = w

(***************************************************************************)
(* C1: a task is running or finished only if every task it depends on,    *)
(* directly or transitively, has finished successfully; in each chain      *)
(* gather -> smooth -> fft2 -> save of the loop, a task has started only   *)
(* if all the tasks submitted before it in its iteration have finished.    *)
(***************************************************************************)
C1_StartsAfterDependencies ==
    \A t \in Handles :
        tasks[t].state \in {"running", "finished"} =>
            /\ \A d \in TransDeps(t) : tasks[d].state = "finished"
            /\ \A u \in Upstream(t) : tasks[u].state = "finished"
            /\ tasks[t].fn \in ChainFns =>
                   Cardinality(Upstream(t)) = Pos(tasks[t].fn) - 1

C1_Witness ==
    \E t \in Handles : /\ tasks[t].fn = "save"
                       /\ tasks[t].state = "running"
                       /\ Cardinality(TransDeps(t)) = 3

(***************************************************************************)
(* C2: a task that depends, directly or through a chain of dependency      *)
(* edges, on a failed task is never executed: it has never been claimed by *)
(* a worker and is neither running nor finished.                           *)
(***************************************************************************)
C2_DependentsOfFailedNeverRun ==
    \A t \in Handles :
        (\E u \in TransDeps(t) \cup Upstream(t) : tasks[u].state = "failed") =>
            /\ tasks[t].runs = 0
            /\ tasks[t].state \notin {"running", "finished"}

C2_Witness ==
    \E t \in Handles, u \in Handles :
        /\ tasks[u].fn = "gather_from_detector"
        /\ tasks[u].state = "failed"
        /\ tasks[t].fn = "save"
        /\ u \in TransDeps(t)
        /\ tasks[t].state = "failed"
        /\ tasks[t].runs = 0

(***************************************************************************)
(* C3: wait([X_train, Y_train]) has returned only if every partition task  *)
(* of X_train and of Y_train is finished or failed; while one of them is   *)
(* still created or running, the caller stays in wait.                     *)
(***************************************************************************)
C3_WaitReturnsWhenAllTerminal ==
    /\ done.returned => \A t \in Given : tasks[t].state \in Terminal
    /\ (pc = "wait" /\ \E t \in Given : tasks[t].state \in {"created", "running"})
           => ~ENABLED WaitTrain

C3_Witness ==
    /\ done.returned
    /\ Len(X_train) = NParts
    /\ Len(Y_train) = NParts
    /\ \A t \in Given : tasks[t].state = "finished"

(***************************************************************************)
(* C4: the summary wait returned puts every given task in exactly one of   *)
(* finished and failed, according to the task's state; wait raises nothing *)
(* in the caller.                                                          *)
(***************************************************************************)
C4_SummaryMatchesStates ==
    done.returned =>
        /\ done.finished \cup done.failed = Given
        /\ done.finished \cap done.failed = {}
        /\ done.finished = {t \in Given : tasks[t].state = "finished"}
        /\ done.failed = {t \in Given : tasks[t].state = "failed"}
        /\ "fit" \in cells => callerError = 0

C4_Witness ==
    /\ done.returned
    /\ done.failed # {}
    /\ done.finished # {}
    /\ callerError = 0

(***************************************************************************)
(* C5: a task's function is invoked at most once; a task wait reported as  *)
(* finished stays finished, was run exactly once and its result is held by *)
(* the pool, also after the caller has read it.                            *)
(***************************************************************************)
C5_NoRecomputation ==
    /\ \A t \in Handles : tasks[t].runs <= 1
    /\ \A t \in done.finished : /\ tasks[t].state = "finished"
                                /\ tasks[t].runs = 1
                                /\ ~tasks[t].released
    /\ \A t \in reads : tasks[t].state \in Terminal

C5_Witness ==
    /\ reads # {}
    /\ reads \subseteq done.finished
    /\ \A t \in reads : tasks[t].runs = 1 /\ tasks[t].state = "finished"

C7_WaitUnaffectedByDetached ==
    /\ pc = "faf" => ENABLED FireAndForget
    /\ pc = "wait" =>
           ((ENABLED WaitTrain) <=> \A t \in Given : tasks[t].state \in Terminal)

C7_Witness ==
    /\ done.returned
    /\ \E t \in Handles : /\ tasks[t].detached
                          /\ tasks[t].state \in {"created", "running"}

(***************************************************************************)
(* C8: a save task is never released before it is finished or failed, also *)
(* once the caller holds no handle of it; under fair worker scheduling a   *)
(* detached task eventually is finished or failed.                         *)
(***************************************************************************)
SavesRetained ==
    \A t \in SaveTasks : /\ tasks[t].state # "cancelled"
                         /\ tasks[t].released => tasks[t].state \in Terminal

DetachedPending == {t \in Handles : tasks[t].detached /\ tasks[t].state \notin Terminal}

\* From a state with detached tasks that have not completed, a state is
\* reached in which every one of them has.
C8_DetachedRetainedUntilComplete ==
    /\ []SavesRetained
    /\ (DetachedPending # {}) ~> (DetachedPending = {})

C8_Witness ==
    \E t \in Handles : /\ tasks[t].detached
                       /\ t \notin Referenced
                       /\ tasks[t].state \in {"created", "running"}
                       /\ ~tasks[t].released

(***************************************************************************)
(* C9: the error of a detached task is raised in no caller, its result is  *)
(* never read and wait's summary does not name it; a detached task that    *)
(* has completed and that the caller does not reference is released.       *)
(***************************************************************************)
C9_DetachedErrorsNotSurfaced ==
    /\ callerError \notin SaveTasks
    /\ callerError # 0 => callerError \in Given
    /\ reads \cap SaveTasks = {}
    /\ (done.finished \cup done.failed) \cap SaveTasks = {}
    /\ \A t \in SaveTasks :
           (tasks[t].detached /\ tasks[t].state \in Terminal /\ t \notin Referenced)
               => tasks[t].released

C9_Witness ==
    /\ \E t \in Handles : tasks[t].detached /\ tasks[t].state = "failed"
    /\ done.returned
    /\ cells = {}
    /\ pc = "idle"
    /\ callerError = 0

(***************************************************************************)
(* C10: a submit (or persist) statement can be taken in every state the    *)
(* caller reaches it in, whatever the workers and the argument tasks are   *)
(* doing; the only position at which the caller can be kept from stepping  *)
(* is wait.                                                                *)
(***************************************************************************)
C10_SubmitNeverBlocks ==
    /\ pc = "gather" => ENABLED SubmitGather
    /\ pc = "smooth" => ENABLED SubmitSmooth
    /\ pc = "fft2" => ENABLED SubmitFft2
    /\ pc = "save" => ENABLED SubmitSave
    /\ pc = "persistX" => ENABLED PersistXTrain
    /\ pc = "persistY" => ENABLED PersistYTrain
    /\ (pc \notin {"idle", "halted"} /\ ~ENABLED CallerNext) => pc = "wait"

\* Every worker is busy and the argument of the next submit is a handle of a
\* task that has not started.
C10_Witness ==
    /\ pc = "fft2"
    /\ \A w \in Workers : Busy(w)
    /\ tasks[img].state = "created"

(***************************************************************************)
(* C11: a task that was not run because a task it depends on failed is     *)
(* reported by wait as failed, never as finished: when partition p of      *)
(* X_train has failed, wait([X_train, Y_train]) reports partition p of     *)
(* X_train and partition p of Y_train as failed, and the latter was never  *)
(* run.                                                                    *)
(***************************************************************************)
C11_PropagatedFailureReported ==
    done.returned =>
        /\ \A t \in Given :
               (\E d \in TransDeps(t) : tasks[d].state = "failed") =>
                   /\ t \in done.failed
                   /\ t \notin done.finished
                   /\ tasks[t].runs = 0
        /\ \A p \in 1..NParts :
               tasks[X_train[p]].state = "failed" =>
                   /\ X_train[p] \in done.failed
                   /\ Y_train[p] \in done.failed
                   /\ Y_train[p] \notin done.finished
                   /\ tasks[Y_train[p]].runs = 0

C11_Witness ==
    /\ done.returned
    /\ \E p \in 1..NParts : /\ X_train[p] \in done.failed
                             /\ tasks[X_train[p]].runs = 1
                             /\ Y_train[p] \in done.failed
                             /\ tasks[Y_train[p]].runs = 0

(***************************************************************************)
(* C12: a dependent task is run on the result of the upstream task: with   *)
(* f(x) = x + 1 submitted on x and g(y) = y * 2 submitted on the handle of *)
(* the first submit, the result read after wait is (x + 1) * 2, which is 4 *)
(* for x = 1.                                                              *)
(***************************************************************************)
C12_DependentGetsResult ==
    env.nb = "example" =>
        /\ \A t \in Handles :
               tasks[t].state = "finished" =>
                   tasks[t].result = IF tasks[t].fn = "f" THEN env.x + 1
                                     ELSE (env.x + 1) * 2
        /\ pc = "ex_done" => env.out = (env.x + 1) * 2
        /\ (pc = "ex_done" /\ env.x = 1) => env.out = 4

C12_Witness ==
    /\ env.nb = "example"
    /\ pc = "ex_done"
    /\ env.x = 1
    /\ env.out = 4

(***************************************************************************)
(* C13: there is no cancellation.  A task goes from created to running and *)
(* from running to finished or failed, or from created to failed when a    *)
(* dependency has failed; a finished or failed task stays as it is.  With  *)
(* a fair pool every task reaches finished or failed, and once the loop    *)
(* of N chains is over there are 4N tasks, which all do.                   *)
(***************************************************************************)
LifecycleStep(t) ==
    \/ tasks'[t].state = tasks[t].state
    \/ tasks[t].state = "created" /\ tasks'[t].state = "running"
    \/ tasks[t].state = "running" /\ tasks'[t].state \in Terminal
    \/ /\ tasks[t].state = "created"
       /\ tasks'[t].state = "failed"
       /\ tasks'[t].runs = 0
       /\ \E d \in Range(tasks[t].deps) : tasks[d].state = "failed"

NotTerminal == {t \in Handles : tasks[t].state \notin Terminal}

LoopOver == pc = "idle" /\ cells = {}

C13_LifecycleWithoutCancellation ==
    /\ [](\A t \in Handles :
              tasks[t].state \in {"created", "running", "finished", "failed"})
    /\ [][\A t \in Handles : LifecycleStep(t)]_vars
    /\ [](LoopOver => Len(tasks) = 4 * NChains)
    /\ (NotTerminal # {}) ~> (NotTerminal = {})
    /\ LoopOver ~> (LoopOver /\ NotTerminal = {})

C13_Witness ==
    /\ LoopOver
    /\ Len(tasks) = 4 * NChains
    /\ NotTerminal = {}
    /\ \E t \in Handles : tasks[t].state = "finished"
    /\ \E t \in Handles : tasks[t].state = "failed" /\ tasks[t].runs = 0
    /\ \E t \in Handles : tasks[t].state = "failed" /\ tasks[t].runs = 1

(***************************************************************************)
(* C14: only dependency edges order the tasks.  The tasks a task depends   *)
(* on are tasks of its own loop iteration, and a task that has not started *)
(* can be claimed by any idle worker as soon as the tasks before it in its *)
(* iteration have finished, whatever the tasks of the other iterations     *)
(* are doing.                                                              *)
(***************************************************************************)
C14_OnlyEdgesOrder ==
    \A t \in Handles :
        /\ \A d \in TransDeps(t) : tasks[d].chain = tasks[t].chain
        /\ (/\ tasks[t].state = "created"
            /\ \A u \in Upstream(t) : tasks[u].state = "finished")
               => \A w \in Workers : Idle(w) => ENABLED Claim(w, t)

\* A task of a later iteration has finished while a task submitted before it
\* is still running, and tasks of the two iterations run at the same time on
\* different workers.
C14_Witness ==
    \E t, u, v \in Handles :
        /\ t < u
        /\ tasks[t].chain # tasks[u].chain
        /\ tasks[v].chain = tasks[u].chain
        /\ tasks[t].state = "running"
        /\ tasks[u].state = "finished"
        /\ tasks[v].state = "running"
        /\ tasks[t].worker # tasks[v].worker

(***************************************************************************)
(* C15: no dataframe handed to dxgb_gpu.train (X_train, Y_train) or to     *)
(* dxgb_gpu.predict (X_test) has a partition without rows, however the     *)
(* rows are spread over the partitions.                                    *)
(***************************************************************************)
C15_NoEmptyPartitionHanded ==
    env.nb = "etl" =>
        \A k \in DOMAIN env.handed :
            \A df \in Range(env.handed[k].dfs) :
                \A p \in DOMAIN df : Len(df[p]) > 0

Dropped == {t \in Handles : ~tasks[t].detached /\ t \notin Referenced}

DroppedUnreleased == {t \in Dropped : ~tasks[t].released}

Consumers(t) == {u \in Handles : t \in Range(tasks[u].deps)}

C18_UpstreamKeptForConsumer ==
    \A t \in Handles :
        /\ tasks[t].state # "cancelled"
        /\ (tasks[t].fn \in ChainFns \ {"save"} /\ tasks[t].released) =>
               /\ Consumers(t) # {}
               /\ \A u \in Consumers(t) :
                      tasks[u].runs > 0 \/ tasks[t].state = "failed"
        /\ tasks[t].state \in {"created", "running"} =>
               \A d \in Range(tasks[t].deps) : ~tasks[d].released

\* A detached save task of the coroutine is running on the result of an fft2
\* task that is kept, while the gather task of its chain has been released;
\* a save task of the for loop runs on an fft2 task no variable holds.
C18_Witness ==
    /\ \E t \in SaveTasks :
           /\ tasks[t].chain >= NChains
           /\ tasks[t].detached
           /\ tasks[t].state = "running"
           /\ ~tasks[tasks[t].deps[1]].released
           /\ \E g \in Upstream(t) : tasks[g].released
    /\ \E t \in SaveTasks :
           /\ tasks[t].chain < NChains
           /\ tasks[t].detached
           /\ tasks[t].state = "running"
           /\ tasks[t].deps[1] \notin Refs(img, future, X_train, Y_train)
           /\ ~tasks[tasks[t].deps[1]].released

(***************************************************************************)
(* C19: the coroutine never waits for the pool.  Whatever the tasks and    *)
(* the workers are doing, its next statement can be executed; each         *)
(* iteration makes four submits, gather_from_detector, smooth, fft2 and    *)
(* save, each taking the handle of the one before, detaches the save task  *)
(* and sleeps; after the sleep it submits again, and it has no position    *)
(* after the loop.                                                         *)
(***************************************************************************)
CoSubmitted == CASE co.pc = "smooth" -> 1
                 [] co.pc = "fft2" -> 2
                 [] co.pc = "save" -> 3
                 [] co.pc = "faf" -> 4
                 [] OTHER -> 0

LastChain ==
    LET n == Len(tasks)
    IN /\ tasks[n].fn = "save" /\ tasks[n].deps = <<n - 1>> /\ tasks[n].detached
       /\ tasks[n - 1].fn = "fft2" /\ tasks[n - 1].deps = <<n - 2>>
       /\ tasks[n - 2].fn = "smooth" /\ tasks[n - 2].deps = <<n - 3>>
       /\ tasks[n - 3].fn = "gather_from_detector" /\ tasks[n - 3].deps = <<>>
       /\ \A k \in 1..3 : ~tasks[n - k].detached

C20_DistinctFilenames ==
    \A s, t \in SaveTasks : s # t => tasks[s].lit # tasks[t].lit

(***************************************************************************)
(* C21: a task is held by at most one worker.  A task is running exactly   *)
(* when one worker holds it; while it is running no worker can claim it,   *)
(* and the worker that holds it changes only by that worker returning; no  *)
(* task is started twice, so a task finishes in the hands of the one       *)
(* worker that claimed it.                                                 *)
(***************************************************************************)
HeldByOne ==
    \A t \in Handles :
        /\ tasks[t].state = "running" <=> tasks[t].worker \in Workers
        /\ tasks[t].worker \in Workers \cup {NoWorker}
        /\ tasks[t].runs <= 1
        /\ tasks[t].state # "created" => \A w \in Workers : ~ENABLED Claim(w, t)

KeepsWorker(t) ==
    /\ tasks[t].worker \in Workers => tasks'[t].worker \in {tasks[t].worker, NoWorker}
    /\ tasks'[t].state = "finished" /\ tasks[t].state # "finished" =>
           /\ tasks[t].worker \in Workers
           /\ tasks[t].runs = 1

C21_ClaimedByOneWorker ==
    /\ []HeldByOne
    /\ [][\A t \in Handles : KeepsWorker(t)]_vars

C21_Witness ==
    \E t, u, v \in Handles :
        /\ tasks[t].state = "running"
        /\ tasks[u].state = "running"
        /\ tasks[t].worker # tasks[u].worker
        /\ tasks[v].state = "finished"
        /\ tasks[v].runs = 1
        /\ \A w \in Workers : ~Idle(w)

(***************************************************************************)
(* C22: drop_empty_partitions(df) is df without its partitions of length   *)
(* 0: what it returns are the partitions of df that have rows, each once   *)
(* and in the order they have in df; it has no partition without rows, it  *)
(* has the rows of df, and it has no partition when df has none with rows. *)
(***************************************************************************)
Increasing(f) == \A j, k \in DOMAIN f : j < k => f[j] < f[k]

DropsExactlyEmpty(df, out) ==
    /\ \A k \in DOMAIN out : Len(out[k]) > 0
    /\ \E f \in [DOMAIN out -> DOMAIN df] :
           /\ Increasing(f)
           /\ \A k \in DOMAIN out : out[k] = df[f[k]]
           /\ {f[k] : k \in DOMAIN out} = {p \in DOMAIN df : Len(df[p]) > 0}
    /\ Flatten(out) = Flatten(df)
    /\ (\A p \in DOMAIN df : Len(df[p]) = 0) => out = <<>>

C22_DropsExactlyEmptyPartitions ==
    [][(pc = "drop" /\ pc' = "y_test") => DropsExactlyEmpty(env.X_test, env'.X_test)]_vars

\* drop_empty_partitions has returned one partition of two: the first had no
\* row with day >= 25.
C22_Witness ==
    /\ env.nb = "etl"
    /\ pc = "y_test"
    /\ Len(QueryTestRows(env.taxi_df)[1]) = 0
    /\ Len(QueryTestRows(env.taxi_df)[2]) > 0
    /\ env.X_test = <<QueryTestRows(env.taxi_df)[2]>>

(***************************************************************************)
(* C23: every column of the partition clean returns has a name that is a   *)
(* key of must_haves.  A column of the input whose name, stripped and in   *)
(* lower case, is a key of must_haves is returned under that key; one      *)
(* whose name is then a key of remap is returned under the name remap      *)
(* gives it; every other column is dropped.                                *)
(***************************************************************************)
C23_CleanKeepsMustHaves ==
    (env.nb = "clean" /\ pc # "clean") =>
        /\ \A c \in Range(env.df_part) :
               IsPlain(c.name) /\ c.name.text \in DOMAIN must_haves
        /\ \A r \in Range(env.raw) :
               /\ r.name.text \in DOMAIN must_haves =>
                      \E c \in Range(env.df_part) : c.name.text = r.name.text
               /\ r.name.text \in DOMAIN remap =>
                      \E c \in Range(env.df_part) : c.name.text = remap[r.name.text]
        /\ Len(env.df_part) =
               Cardinality({k \in DOMAIN env.raw :
                               env.raw[k].name.text \in DOMAIN must_haves \cup DOMAIN remap})

\* " RateCodeID " and " Vendor_ID " have been cleaned to rate_code alone.
C23_Witness ==
    /\ env.nb = "clean"
    /\ pc = "query"
    /\ Len(env.raw) = 2
    /\ env.raw[1].name = [text |-> "ratecodeid", upper |-> TRUE, pad |-> 1]
    /\ env.raw[2].name = [text |-> "vendor_id", upper |-> TRUE, pad |-> 1]
    /\ Len(env.df_part) = 1
    /\ env.df_part[1].name = [text |-> "rate_code", upper |-> FALSE, pad |-> 0]

(***************************************************************************)
(* C24: after clean, every column of the input that must_haves names (by   *)
(* its own name or through remap) is in the partition returned with the    *)
(* dtype must_haves lists for it, whatever dtype the reader inferred.      *)
(***************************************************************************)
C24_MustHaveDtypes ==
    (env.nb = "clean" /\ pc # "clean") =>
        \A r \in Range(env.raw) :
            Spelling(r.name) \in DOMAIN must_haves =>
                \E c \in Range(env.df_part) :
                    /\ c.name.text = Spelling(r.name)
                    /\ c.dtype = must_haves[Spelling(r.name)]

(***************************************************************************)
(* C25: clean leaves no missing value in a column that is not a datetime,  *)
(* a value that was missing is -1 afterwards, and the row is in taxi_df    *)
(* after the query exactly when none of fare_amount, passenger_count and   *)
(* the four coordinates was missing (the values that are not missing       *)
(* being in range).                                                        *)
(***************************************************************************)
C25_MissingValuesThrownOut ==
    (env.nb = "clean" /\ pc # "clean" /\ Queryable(env.raw)) =>
        /\ Len(env.df_part) = Len(env.raw)
        /\ \A k \in DOMAIN env.df_part :
               env.df_part[k].name.text \notin DatetimeCols =>
                   /\ ~env.df_part[k].cell.na
                   /\ env.raw[k].cell.na => env.df_part[k].cell.v = -1
        /\ pc = "queried" =>
               (env.taxi_df # <<>> <=> \A k \in DOMAIN env.raw : ~env.raw[k].cell.na)

\* fare_amount was read as strings and passenger_count as integers, both are
\* missing in the row, and the row is not in taxi_df.
C25_Witness ==
    /\ env.nb = "clean"
    /\ pc = "queried"
    /\ env.raw[1].dtype = "object" /\ env.raw[1].cell.na
    /\ env.raw[2].dtype = "int64" /\ env.raw[2].cell.na
    /\ \A k \in 3..6 : ~env.raw[k].cell.na
    /\ env.df_part[1].cell = Present(-1)
    /\ env.df_part[2].cell = Present(-1)
    /\ env.taxi_df = <<>>

(***************************************************************************)
(* C26: once the test set is built, the rows of the training set have      *)
(* day < 25 and the rows of the test set day >= 25, so no row is in both;  *)
(* for each day and each fare, the rows of taxi_df that have it are as     *)
(* many as those of the training set and the test set together; and the    *)
(* test set has as many rows as the query left before the empty            *)
(* partitions were dropped.                                                *)
(***************************************************************************)
Cells(df) == {<<p, k>> : p \in DOMAIN df, k \in 1..MaxRows}

CountOf(df, c, v) ==
    Cardinality({x \in Cells(df) : x[2] \in DOMAIN df[x[1]] /\ df[x[1]][x[2]][c] = v})

SplitDone == pc \in {"predict", "error", "rmse", "dump", "load", "reloaded"}

RECURSIVE DaysBefore(_, _)
DaysBefore(m, y) ==
    IF m = 1
    THEN IF y = FirstYear THEN 0 ELSE DaysBefore(12, y - 1) + DaysInMonth(12, y - 1)
    ELSE DaysBefore(m - 1, y) + DaysInMonth(m - 1, y)

Weekday(dt) == (DaysBefore(dt.month, dt.year) + dt.day) % 7

C27_DayOfWeek ==
    (env.nb = "features" /\ pc = "featured") =>
        /\ env.day_of_week \in 0..6
        /\ \A dt \in Dates :
               day_of_the_week_kernel(dt.day, dt.month, dt.year) = env.day_of_week
                   <=> Weekday(dt) = Weekday([day |-> env.day, month |-> env.month,
                                              year |-> env.year])
=============================================================================
